---- MODULE Spec2Model ----
(***************************************************************************)
(* IdeaFlash: the local Record Store (IndexedDBDatabase), the notes        *)
(* coordinator (useNotesStore) and its reconciliation pass (mergeWithApi), *)
(* and the auth store that starts the pass.                                *)
(*                                                                         *)
(* Strings are sequences of one-character strings, so that trim() is       *)
(* computed and not assumed.  A portable id `${timestamp}_${owner}` is the *)
(* pair <<timestamp, owner>>.  ISO timestamps are the clock values they    *)
(* print (toISOString is order preserving).                                *)
(***************************************************************************)
EXTENDS Integers, Sequences, FiniteSets, TLC

VARIABLES
    db,               \* the "notes" object store: a set of Note records
    now,              \* the wall clock read by Date.now() / new Date()
    ret,              \* the outcome of the last Record Store / coordinator call
    notes,            \* useNotesStore.notes, the in-memory list
    isLoading,        \* useNotesStore.isLoading
    error,            \* useNotesStore.error ("null" or a message)
    searchTerm,       \* useNotesStore.searchTerm
    user,             \* useAuthStore.user ("null" or a user id)
    isAuthenticated,  \* useAuthStore.isAuthenticated
    isApiEnabled,     \* isApiConfigured()
    remote,           \* the notes held by the remote service
    pc,               \* position of the reconciliation pass
    mrg,              \* the locals of the running (or last) pass
    act,              \* the coordinator action in flight, if any
    calls,            \* how many calls the UI has made in this session
    conn,             \* IndexedDBDatabase.db (the connection) and the initDB calls
    gone              \* history: portable ids the user deleted and has not created again

vars == <<db, now, ret, notes, isLoading, error, searchTerm, user,
          isAuthenticated, isApiEnabled, remote, pc, mrg, act, calls, conn, gone>>

----------------------------------------------------------------------------
(* Bounds *)

MaxClock == 2      \* the clock runs from 1 to MaxClock
MaxNotes == 3      \* addNote is offered while the store holds fewer records
MaxCalls == 3      \* the UI makes at most this many calls in one session
MaxDbClock == 2    \* the same, when the Record Store is driven directly
MaxDbNotes == 2    \* the Record Store holds at most this many records then
MaxLimit == 2      \* getNotes(limit) is tried for limit in 0..MaxLimit
MaxCallers == 3    \* operations that can be waiting for initDB at once
MaxOpens == 4      \* indexedDB.open is called at most this many times

----------------------------------------------------------------------------
(* Values *)

NULL == "null"

Anonymous == "anonymous"
Users == {"u1", "u2"}
Owners == {Anonymous} \cup Users

\* String order of the owner part of a key.
OwnerRank(o) == CASE o = Anonymous -> 0 [] o = "u1" -> 1 [] o = "u2" -> 2

Empty == << >>
TextsIn == {Empty, <<" ">>, <<"a">>}

IsSpace(c) == c = " "

RECURSIVE TrimStart(_)
TrimStart(s) ==
    IF s # Empty /\ IsSpace(Head(s)) THEN TrimStart(Tail(s)) ELSE s

RECURSIVE TrimEnd(_)
TrimEnd(s) ==
    IF s # Empty /\ IsSpace(s[Len(s)])
    THEN TrimEnd(SubSeq(s, 1, Len(s) - 1))
    ELSE s

\* String.prototype.trim
trim(s) == TrimEnd(TrimStart(s))

\* !note.field?.trim()  (the field absent, empty or whitespace only)
BlankField(note, f) == f \notin DOMAIN note \/ trim(note[f]) = Empty

\* generateIdeaFlashId(userId): `${Date.now()}_${userId || "anonymous"}`
generateIdeaFlashId(userId, t) ==
    <<t, IF userId = NULL THEN Anonymous ELSE userId>>

\* idea_flash_id.includes("_anonymous")
isAnonymousNote(id) == id[2] = Anonymous

----------------------------------------------------------------------------
(* Record Store: IndexedDBDatabase, object store "notes" keyed by          *)
(* idea_flash_id, with an index on created_at.                             *)

\* validateNote without the trim(): whitespace counts as text.
validateNoteUntrimmed(note) ==
    ~(/\ ("title" \notin DOMAIN note \/ note.title = Empty)
      /\ ("content" \notin DOMAIN note \/ note.content = Empty))

\* validateNote: TRUE when it does not throw.
validateNote(note) == ~(BlankField(note, "title") /\ BlankField(note, "content"))

HasKey(store, key) == \E r \in store : r.idea_flash_id = key

Lookup(store, key) == CHOOSE r \in store : r.idea_flash_id = key

Rejected(store, why) == [ok |-> FALSE, err |-> why, store |-> store, note |-> NULL]

Resolved(store, note) == [ok |-> TRUE, err |-> NULL, store |-> store, note |-> note]

\* An add that does not look for the key.
StoreAddUnchecked(store, newNote) == Resolved(store \cup {newNote}, newNote)

\* IDBObjectStore.add: a ConstraintError when the key is already stored.
StoreAdd(store, newNote) ==
    IF HasKey(store, newNote.idea_flash_id)
    THEN Rejected(store, "ConstraintError")
    ELSE Resolved(store \cup {newNote}, newNote)

\* IDBObjectStore.put: insert or replace by key.
StorePut(store, note) ==
    {r \in store : r.idea_flash_id # note.idea_flash_id} \cup {note}

\* IndexedDBDatabase.addNote(note) at clock t.
addNote(store, note, t) ==
    IF ~validateNote(note)
    THEN Rejected(store, "Note must have either a title or content")
    ELSE StoreAdd(store, [id            |-> note.idea_flash_id,
                          idea_flash_id |-> note.idea_flash_id,
                          title         |-> note.title,
                          content       |-> note.content,
                          created_at    |-> t,
                          updated_at    |-> t])

\* An overlay that keeps the key and createdAt but takes title and content
\* from the partial alone.
OverlayDropsUnsupplied(existing, updates, t) ==
    [f \in DOMAIN existing |->
        IF f = "updated_at" THEN t
        ELSE IF f \in DOMAIN updates THEN updates[f]
        ELSE IF f \in {"title", "content"} THEN Empty
        ELSE existing[f]]

\* { ...existingNote, ...updates, updated_at: now }
Overlay(existing, updates, t) ==
    [f \in DOMAIN existing |->
        IF f = "updated_at" THEN t
        ELSE IF f \in DOMAIN updates THEN updates[f]
        ELSE existing[f]]

\* IndexedDBDatabase.updateNote(idea_flash_id, updates) at clock t.
updateNote(store, key, updates, t) ==
    IF ~validateNote(updates)
    THEN Rejected(store, "Note must have either a title or content")
    ELSE IF ~HasKey(store, key)
    THEN Rejected(store, "not found")
    ELSE LET updatedNote == Overlay(Lookup(store, key), updates, t)
         IN  Resolved(StorePut(store, updatedNote), updatedNote)

\* IndexedDBDatabase.deleteNote(idea_flash_id): deleting an absent key succeeds.
deleteNote(store, key) == {r \in store : r.idea_flash_id # key}

\* IndexedDBDatabase.clearAllNotes()
clearAllNotes(store) == {}

\* Order of the created_at index: by created_at, then by primary key.
IndexLess(a, b) ==
    \/ a.created_at < b.created_at
    \/ /\ a.created_at = b.created_at
       /\ \/ a.idea_flash_id[1] < b.idea_flash_id[1]
          \/ /\ a.idea_flash_id[1] = b.idea_flash_id[1]
             /\ OwnerRank(a.idea_flash_id[2]) < OwnerRank(b.idea_flash_id[2])

\* A limit is <<>> (argument omitted) or <<n>>.  !limit holds for both
\* undefined and 0.
NoLimit == << >>
LimitFalsy(limit) == limit = NoLimit \/ limit[1] = 0

\* The cursor loop of getNotes: openCursor(null, "prev") walks the index
\* backwards while (!limit || count < limit).
RECURSIVE Cursor(_, _, _)
Cursor(remaining, out, limit) ==
    IF remaining # {} /\ (LimitFalsy(limit) \/ Len(out) < limit[1])
    THEN LET cur == CHOOSE r \in remaining :
                        \A o \in remaining : o = r \/ IndexLess(o, r)
         IN  Cursor(remaining \ {cur}, Append(out, cur), limit)
    ELSE out

\* IndexedDBDatabase.getNotes(limit)
getNotes(store, limit) == Cursor(store, << >>, limit)

----------------------------------------------------------------------------
(* The connection: initDB *)

Callers == 1..MaxCallers

\* private db: IDBDatabase | null = null.  handle is this.db, 0 for null;
\* opens counts the indexedDB.open calls, each of which yields a connection
\* of its own, numbered by its call; opened counts those that succeeded;
\* used collects the connections that operations were given; at[c] is the
\* open request caller c waits for, 0 when it waits for none.
ConnClosed ==
    [handle |-> 0, opens |-> 0, opened |-> 0, used |-> {},
     at |-> [c \in Callers |-> 0]]

\* The connection once a first operation has opened it.
ConnOpen ==
    [handle |-> 1, opens |-> 1, opened |-> 1, used |-> {1},
     at |-> [c \in Callers |-> 0]]

ConnFrame ==
    UNCHANGED <<db, now, ret, notes, isLoading, error, searchTerm, user,
                isAuthenticated, isApiEnabled, remote, pc, mrg, act, calls, gone>>

\* initDB() as an operation calls it: the cached connection if there is
\* one, otherwise a new indexedDB.open request.
initDB(c) ==
    /\ conn.at[c] = 0
    /\ IF conn.handle # 0
       THEN conn' = [conn EXCEPT !.used = @ \cup {conn.handle}]
       ELSE /\ conn.opens < MaxOpens
            /\ conn' = [conn EXCEPT !.opens = @ + 1, !.at[c] = conn.opens + 1]
    /\ ConnFrame

\* request.onsuccess: this.db = request.result; resolve(this.db)
OpenSucceeds(c) ==
    /\ conn.at[c] # 0
    /\ conn' = [conn EXCEPT !.handle = conn.at[c],
                            !.opened = @ + 1,
                            !.used = @ \cup {conn.at[c]},
                            !.at[c] = 0]
    /\ ConnFrame

\* request.onerror: reject(request.error)
OpenFails(c) ==
    /\ conn.at[c] # 0
    /\ conn' = [conn EXCEPT !.at[c] = 0]
    /\ ConnFrame

----------------------------------------------------------------------------
(* Inputs *)

NoteDataIn == [title : TextsIn, content : TextsIn]

\* Partial<Note> as the editors pass it: any subset of title and content.
UpdatesIn ==
    UNION {[fs -> TextsIn] : fs \in SUBSET {"title", "content"}}

\* Inputs of the coordinator actions.
AddIn == {[title |-> Empty, content |-> <<"a">>], [title |-> <<" ">>, content |-> Empty]}

CoordUpdatesIn ==
    {[content |-> <<"b">>], [title |-> <<" ">>], [title |-> Empty, content |-> <<" ">>]}

LimitsIn == {NoLimit} \cup {<<n>> : n \in 0..MaxLimit}

NoRet == [ok |-> TRUE]

NoAct == [op |-> "none"]

NoMrg == [phase |-> "none"]

----------------------------------------------------------------------------
(* SpecDB: the Record Store driven directly through its public methods.    *)

CoordinatorIdle ==
    UNCHANGED <<notes, isLoading, error, searchTerm, user, isAuthenticated,
                isApiEnabled, remote, pc, mrg, act, calls>>

InitDB ==
    /\ db = {}
    /\ now = 1
    /\ ret = NoRet
    /\ notes = << >>
    /\ isLoading = FALSE
    /\ error = NULL
    /\ searchTerm = Empty
    /\ user = NULL
    /\ isAuthenticated = FALSE
    /\ isApiEnabled = FALSE
    /\ remote = {}
    /\ pc = "idle"
    /\ mrg = NoMrg
    /\ act = NoAct
    /\ calls = 0
    /\ conn = ConnClosed
    /\ gone = {}

\* Time passes.
TickDB ==
    /\ now < MaxDbClock
    /\ now' = now + 1
    /\ UNCHANGED <<db, conn, gone, ret, notes, isLoading, error, searchTerm, user,
                   isAuthenticated, isApiEnabled, remote, pc, mrg, act, calls>>

\* Keys a caller can name: the stored ones and one minted before the clock
\* started, which may not be stored.
KnownKeys(store) == {r.idea_flash_id : r \in store} \cup {<<0, Anonymous>>}

DbAddNoteWith(data, owner) ==
    LET note == [title |-> data.title, content |-> data.content,
                 idea_flash_id |-> generateIdeaFlashId(owner, now)]
        r == addNote(db, note, now)
    IN  /\ Cardinality(db) < MaxDbNotes
        /\ db' = r.store
        /\ ret' = [ok |-> r.ok]
        /\ UNCHANGED <<now, conn, gone>>
        /\ CoordinatorIdle

DbAddNote == \E data \in NoteDataIn, owner \in Owners : DbAddNoteWith(data, owner)

DbUpdateNoteWith(key, updates) ==
    LET r == updateNote(db, key, updates, now)
    IN  /\ db' = r.store
        /\ ret' = [ok |-> r.ok]
        /\ UNCHANGED <<now, conn, gone>>
        /\ CoordinatorIdle

DbUpdateNote ==
    \E key \in KnownKeys(db), updates \in UpdatesIn : DbUpdateNoteWith(key, updates)

DbDeleteNote ==
    \E key \in KnownKeys(db) :
        /\ db' = deleteNote(db, key)
        /\ ret' = [ok |-> TRUE]
        /\ UNCHANGED <<now, conn, gone>>
        /\ CoordinatorIdle

DbGetNotes ==
    \E limit \in LimitsIn :
        /\ ret' = [ok |-> TRUE, limit |-> limit, value |-> getNotes(db, limit)]
        /\ UNCHANGED <<db, now, conn, gone>>
        /\ CoordinatorIdle

DbClearAllNotes ==
    /\ db' = clearAllNotes(db)
    /\ ret' = [ok |-> TRUE]
    /\ UNCHANGED <<now, conn, gone>>
    /\ CoordinatorIdle

NextDB ==
    \/ TickDB
    \/ DbAddNote
    \/ DbUpdateNote
    \/ DbDeleteNote
    \/ DbGetNotes
    \/ DbClearAllNotes

SpecDB == InitDB /\ [][NextDB]_vars

\* SpecOpen: operations of a new IndexedDBDatabase calling initDB.
NextOpen ==
    \/ \E c \in Callers : initDB(c)
    \/ \E c \in Callers : OpenSucceeds(c)
    \/ \E c \in Callers : OpenFails(c)

SpecOpen == InitDB /\ [][NextOpen]_vars

----------------------------------------------------------------------------
(* SpecTx: one write of the Record Store at the grain of withTransaction.  *)
(* The promise settles when the request does; the transaction completes    *)
(* or aborts afterwards.  db is the committed store, the only thing a read *)
(* sees.                                                                   *)

TxFrame ==
    UNCHANGED <<now, conn, gone, isLoading, error, searchTerm, user, isAuthenticated,
                isApiEnabled, remote, mrg, calls>>

\* A write is called, r being what the Record Store answers if the
\* transaction goes through: a throw of validateNote or a failed request
\* rejects the call, otherwise the request is issued.
TxBeginWith(r) ==
    /\ pc = "idle"
    /\ Cardinality(r.store) <= MaxDbNotes
    /\ IF r.ok
       THEN /\ pc' = "request"
            /\ act' = [op |-> "write", store |-> r.store]
            /\ ret' = [state |-> "pending"]
       ELSE /\ pc' = "idle"
            /\ act' = NoAct
            /\ ret' = [state |-> "rejected"]
    /\ UNCHANGED <<db, notes>>
    /\ TxFrame

TxBegin ==
    \/ \E d \in AddIn :
          TxBeginWith(addNote(db, [title |-> d.title, content |-> d.content,
                                   idea_flash_id |-> generateIdeaFlashId(NULL, now)],
                              now))
    \/ \E k \in KnownKeys(db), u \in CoordUpdatesIn :
          TxBeginWith(updateNote(db, k, u, now))
    \/ \E k \in KnownKeys(db) : TxBeginWith(Resolved(deleteNote(db, k), NULL))
    \/ TxBeginWith(Resolved(clearAllNotes(db), NULL))

\* request.onsuccess: operation(stores) resolves, and so does the promise
\* of withTransaction.
TxRequestSucceeds ==
    /\ pc = "request"
    /\ pc' = "commit"
    /\ ret' = [state |-> "resolved"]
    /\ UNCHANGED <<db, notes, act>>
    /\ TxFrame

\* transaction.onerror / onabort while the promise is pending: it rejects.
TxAbortsPending ==
    /\ pc = "request"
    /\ pc' = "idle"
    /\ act' = NoAct
    /\ ret' = [state |-> "rejected", committed |-> FALSE]
    /\ UNCHANGED <<db, notes>>
    /\ TxFrame

\* What a call of reject() does to a promise in the given state: a settled
\* promise keeps its state.
RejectPromise(state) == IF state = "pending" THEN "rejected" ELSE state

\* The transaction commits, or aborts at commit (onabort calls reject).
TxCompletes ==
    \E commits \in BOOLEAN :
        /\ pc = "commit"
        /\ db' = IF commits THEN act.store ELSE db
        /\ ret' = [state |-> IF commits THEN ret.state
                             ELSE RejectPromise(ret.state),
                   committed |-> commits]
        /\ pc' = "idle"
        /\ act' = NoAct
        /\ UNCHANGED notes
        /\ TxFrame

\* A reader lists the store at any moment.
TxGetNotes ==
    /\ notes' = getNotes(db, NoLimit)
    /\ notes' # notes
    /\ UNCHANGED <<db, ret, pc, act>>
    /\ TxFrame

NextTx ==
    \/ TickDB
    \/ TxBegin
    \/ TxRequestSucceeds
    \/ TxAbortsPending
    \/ TxCompletes
    \/ TxGetNotes

SpecTx == InitDB /\ [][NextTx]_vars

----------------------------------------------------------------------------
(* Remote service, as the api client sees it: a set of posts keyed by      *)
(* idea_flash_id.  A call that rejects leaves the service unchanged.       *)

Post(id, title, content) == [idea_flash_id |-> id, title |-> title, content |-> content]

RemoteHas(posts, id) == \E p \in posts : p.idea_flash_id = id

\* api.createPost: POST /posts, the portable id being the idempotent identity.
createPost(posts, post) ==
    {p \in posts : p.idea_flash_id # post.idea_flash_id} \cup {post}

\* api.updatePost: PUT /posts/:idea_flash_id
updatePost(posts, id, title, content) ==
    {p \in posts : p.idea_flash_id # id} \cup {Post(id, title, content)}

\* api.deletePost: DELETE /posts/:idea_flash_id
deletePost(posts, id) == {p \in posts : p.idea_flash_id # id}

KeyLess(a, b) ==
    \/ a[1] < b[1]
    \/ a[1] = b[1] /\ OwnerRank(a[2]) < OwnerRank(b[2])

RECURSIVE ListByKey(_)
ListByKey(posts) ==
    IF posts = {} THEN << >>
    ELSE LET first == CHOOSE p \in posts :
                          \A q \in posts : q = p \/ KeyLess(p.idea_flash_id, q.idea_flash_id)
         IN  <<first>> \o ListByKey(posts \ {first})

\* api.getPosts: GET /posts, the list the service answers with.
getPosts(posts) == ListByKey(posts)

----------------------------------------------------------------------------
(* Coordinator: useNotesStore.  Each mutating action is two steps, split   *)
(* at the await between the local write and the remote call.               *)

LowerChar(c) == IF c = "A" THEN "a" ELSE IF c = "B" THEN "b" ELSE c

\* String.prototype.toLowerCase
toLowerCase(s) == [k \in 1..Len(s) |-> LowerChar(s[k])]

\* String.prototype.includes
includes(s, t) == \E k \in 0..(Len(s) - Len(t)) : SubSeq(s, k + 1, k + Len(t)) = t

InList(list, id) == \E k \in 1..Len(list) : list[k].idea_flash_id = id

\* The filter predicate of searchNotes.
Matches(note, term) ==
    \/ includes(toLowerCase(note.title), toLowerCase(term))
    \/ includes(toLowerCase(note.content), toLowerCase(term))

\* A catch block that empties the list, as the one of loadNotes does.
NotesCleared(list) == << >>

\* What the catch block of a mutating action leaves in notes: the list as it was.
NotesAfterLocalFailure(list) == list

\* An inner catch that reports the rejection to the user.
ErrorSurfaced(e) == "Failed to sync"

\* What the inner catch (apiError) of a mutating action leaves in error.
ErrorAfterSyncFailure(e) == e

SearchTermsIn == {<<" ">>, <<"a">>, <<"B">>}

\* Ids the UI can name: those of the listed notes and one that may be gone.
ListedKeys == {notes[k].idea_flash_id : k \in 1..Len(notes)} \cup {<<0, Anonymous>>}

Quiet == pc \in {"idle", "done"} /\ act = NoAct

\* A call from the UI, made when nothing is in flight.
Call == Quiet /\ calls < MaxCalls /\ calls' = calls + 1

AuthUnchanged == UNCHANGED <<user, isAuthenticated, isApiEnabled>>

Tick ==
    /\ now < MaxClock
    /\ now' = now + 1
    /\ UNCHANGED <<db, conn, gone, ret, notes, isLoading, error, searchTerm, user,
                   isAuthenticated, isApiEnabled, remote, pc, mrg, act, calls>>

\* loadNotes (the store read does not fail here)
LoadNotes ==
    /\ Call
    /\ notes' = getNotes(db, NoLimit)
    /\ isLoading' = FALSE
    /\ error' = NULL
    /\ pc' = "idle" /\ mrg' = NoMrg /\ ret' = NoRet
    /\ UNCHANGED <<db, now, conn, gone, searchTerm, remote, act>>
    /\ AuthUnchanged

\* searchNotes(term)
SearchNotes ==
    \E term \in SearchTermsIn :
        /\ Call
        /\ searchTerm' = term
        /\ notes' = IF trim(term) = Empty THEN notes
                    ELSE SelectSeq(notes, LAMBDA n : Matches(n, term))
        /\ pc' = "idle" /\ mrg' = NoMrg /\ ret' = NoRet
        /\ UNCHANGED <<db, now, conn, gone, isLoading, error, remote, act>>
        /\ AuthUnchanged

\* A clearFilters that keeps the list it finds.
NotesKept(list, store) == list

\* What clearFilters leaves in notes: loadNotes reads the Record Store.
NotesAfterClearFilters(list, store) == getNotes(store, NoLimit)

\* clearFilters: reset the term, then loadNotes
ClearFilters ==
    /\ Call
    /\ searchTerm # Empty
    /\ searchTerm' = Empty
    /\ notes' = NotesAfterClearFilters(notes, db)
    /\ isLoading' = FALSE
    /\ error' = NULL
    /\ pc' = "idle" /\ mrg' = NoMrg /\ ret' = NoRet
    /\ UNCHANGED <<db, now, conn, gone, remote, act>>
    /\ AuthUnchanged

\* The shared tail of the local step of addNote / updateNote / deleteNote:
\* r is the Record Store's answer, list the notes to show on success, call
\* the remote call to issue next when authenticated and configured.
LocalStep(r, list, call) ==
    /\ db' = r.store
    /\ ret' = [ok |-> r.ok]
    /\ isLoading' = FALSE
    /\ pc' = "idle" /\ mrg' = NoMrg
    /\ IF r.ok
       THEN /\ notes' = list
            /\ error' = NULL
            /\ act' = IF isApiEnabled /\ isAuthenticated THEN call ELSE NoAct
       ELSE /\ notes' = NotesAfterLocalFailure(notes)
            /\ error' = "Failed"
            /\ act' = NoAct
    /\ UNCHANGED <<now, conn, searchTerm, remote>>
    /\ AuthUnchanged

\* A transaction that fails or aborts rejects the call and writes nothing.
Transact(r, aborted) == IF aborted THEN Rejected(db, "Transaction aborted") ELSE r

\* addNote(noteData), up to the local write
AddNoteWith(data, aborted) ==
    LET ideaFlashId == generateIdeaFlashId(user, now)
        params == [title |-> data.title, content |-> data.content,
                   idea_flash_id |-> ideaFlashId]
        r == IF validateNote(params) THEN Transact(addNote(db, params, now), aborted)
             ELSE addNote(db, params, now)
    IN  /\ Call
        /\ Cardinality(db) < MaxNotes
        /\ LocalStep(r, IF r.ok THEN <<r.note>> \o notes ELSE notes,
                     [op |-> "createPost", id |-> ideaFlashId,
                      title |-> data.title, content |-> data.content])
        /\ gone' = IF r.ok THEN gone \ {ideaFlashId} ELSE gone

AddNote == \E data \in AddIn, aborted \in BOOLEAN : AddNoteWith(data, aborted)

\* updateNote(idea_flash_id, updates), up to the local write
UpdateNoteWith(key, updates, aborted) ==
    LET r == IF validateNote(updates) THEN Transact(updateNote(db, key, updates, now), aborted)
             ELSE updateNote(db, key, updates, now)
    IN  /\ Call
        /\ LocalStep(r,
                     IF r.ok
                     THEN [k \in 1..Len(notes) |->
                              IF notes[k].idea_flash_id = key THEN r.note ELSE notes[k]]
                     ELSE notes,
                     IF r.ok
                     THEN [op |-> "updatePost", id |-> r.note.idea_flash_id,
                           title |-> r.note.title, content |-> r.note.content]
                     ELSE NoAct)
        /\ UNCHANGED gone

UpdateNote ==
    \E key \in ListedKeys, updates \in CoordUpdatesIn, aborted \in BOOLEAN :
        UpdateNoteWith(key, updates, aborted)

\* deleteNote(idea_flash_id), up to the local write
DeleteNoteWith(key, aborted) ==
    LET r == Transact(Resolved(deleteNote(db, key), NULL), aborted)
    IN  /\ Call
        /\ LocalStep(r, SelectSeq(notes, LAMBDA n : n.idea_flash_id # key),
                     [op |-> "deletePost", id |-> key])
        /\ gone' = IF r.ok THEN gone \cup {key} ELSE gone

DeleteNote == \E key \in ListedKeys, aborted \in BOOLEAN : DeleteNoteWith(key, aborted)

\* The remote call of the action in flight resolves or rejects.
SyncWith(resolves) ==
    /\ act # NoAct
    /\ IF resolves
       THEN /\ remote' = CASE act.op = "createPost" ->
                                createPost(remote, Post(act.id, act.title, act.content))
                           [] act.op = "updatePost" ->
                                updatePost(remote, act.id, act.title, act.content)
                           [] act.op = "deletePost" ->
                                deletePost(remote, act.id)
            /\ error' = error
       ELSE /\ remote' = remote
            /\ error' = ErrorAfterSyncFailure(error)
    /\ ret' = [ok |-> TRUE, synced |-> resolves]
    /\ act' = NoAct
    /\ UNCHANGED <<db, now, conn, gone, notes, isLoading, searchTerm, pc, mrg, calls>>
    /\ AuthUnchanged

\* PUT of a post the service does not hold is answered with an error.
Sync ==
    \E resolves \in BOOLEAN :
        /\ (resolves /\ act # NoAct /\ act.op = "updatePost") => RemoteHas(remote, act.id)
        /\ SyncWith(resolves)

----------------------------------------------------------------------------
(* Reconciliation pass: mergeWithApi, one step per awaited call.           *)

\* A precondition that does not ask for the user.
MergePreconditionNoUser(enabled, authed, u) == enabled /\ authed

\* if (!isApiEnabled || !isAuthenticated || !user?.id) return;
MergePrecondition(enabled, authed, u) == enabled /\ authed /\ u # NULL

\* The locals of a pass.  The fields from dbStart on are history, written by
\* the model for the properties to read; the code does not keep them.
NewMrg(u) ==
    [userId |-> u, apiNotes |-> << >>, localNotes |-> << >>, i |-> 1,
     updatedApiNotes |-> << >>,
     dbStart |-> db, rejected |-> FALSE,
     attempted |-> {}, pushRejected |-> {}, promoted |-> {},
     refetched |-> FALSE, rebuilt |-> FALSE, aborted |-> FALSE]

\* A rejected createPost that reaches the outer catch.
AfterPushRejectedAborts == "catch"

\* Where a rejected createPost leaves the promotion loop: its own catch
\* logs the error and the loop takes the next note.
AfterPushRejected == "promote"

\* The outer catch of mergeWithApi.
OuterCatch ==
    /\ isLoading' = FALSE
    /\ error' = "Merge failed"
    /\ pc' = "done"

\* mergeWithApi(), up to its first await, as called by the auth store.
MergeStart(authed, u) ==
    IF MergePrecondition(isApiEnabled, authed, u)
    THEN /\ isLoading' = TRUE
         /\ error' = NULL
         /\ pc' = "getPosts"
         /\ mrg' = NewMrg(u)
    ELSE /\ pc' = "idle"
         /\ mrg' = NoMrg
         /\ UNCHANGED <<isLoading, error>>

\* useAuthStore.initializeAuth, run once when the auth store module is
\* loaded: with a persisted access token the session is marked authenticated
\* (user is not set) and mergeWithApi is called.
InitializeAuth ==
    \E token \in BOOLEAN :
        /\ pc = "boot"
        /\ IF ~isApiEnabled
           THEN /\ pc' = "idle" /\ mrg' = NoMrg
                /\ UNCHANGED <<user, isAuthenticated, isLoading, error>>
           ELSE IF token
           THEN /\ isAuthenticated' = TRUE
                /\ UNCHANGED user
                /\ MergeStart(TRUE, user)
           ELSE /\ user' = NULL
                /\ isAuthenticated' = FALSE
                /\ pc' = "idle" /\ mrg' = NoMrg
                /\ UNCHANGED <<isLoading, error>>
        /\ UNCHANGED <<db, now, conn, gone, ret, notes, searchTerm, isApiEnabled, remote,
                       act, calls>>

\* useAuthStore.login / register
Login ==
    \E u \in Users, resolves \in BOOLEAN :
        /\ Call
        /\ ~isAuthenticated
        /\ IF resolves
           THEN /\ user' = u
                /\ isAuthenticated' = TRUE
                /\ MergeStart(TRUE, u)
           ELSE /\ user' = NULL
                /\ isAuthenticated' = FALSE
                /\ pc' = "idle" /\ mrg' = NoMrg
                /\ UNCHANGED <<isLoading, error>>
        /\ ret' = NoRet
        /\ UNCHANGED <<db, now, conn, gone, notes, searchTerm, isApiEnabled, remote, act>>

\* useAuthStore.logout: the local state is cleared whether api.logout
\* resolves or rejects.
Logout ==
    /\ Call
    /\ isAuthenticated
    /\ user' = NULL
    /\ isAuthenticated' = FALSE
    /\ pc' = "idle" /\ mrg' = NoMrg /\ ret' = NoRet
    /\ UNCHANGED <<db, now, conn, gone, notes, isLoading, error, searchTerm, isApiEnabled,
                   remote, act>>

PassFrame ==
    UNCHANGED <<now, conn, gone, ret, searchTerm, user, isAuthenticated, isApiEnabled, act, calls>>

\* const { data: apiNotes } = await api.getPosts(); const localNotes = get().notes;
MergeGetPosts ==
    \E resolves \in BOOLEAN :
        /\ pc = "getPosts"
        /\ IF resolves
           THEN /\ mrg' = [mrg EXCEPT !.apiNotes = getPosts(remote),
                                      !.localNotes = notes]
                /\ pc' = "adopt"
                /\ UNCHANGED <<isLoading, error>>
           ELSE /\ mrg' = [mrg EXCEPT !.rejected = TRUE, !.aborted = TRUE]
                /\ OuterCatch
        /\ UNCHANGED <<db, notes, remote>>
        /\ PassFrame

\* 1. for (const apiNote of apiNotes): add it locally when localNotes has no
\*    note with its idea_flash_id.  A rejected add reaches the outer catch.
MergeAdopt ==
    /\ pc = "adopt"
    /\ IF mrg.i > Len(mrg.apiNotes)
       THEN /\ pc' = "promote"
            /\ mrg' = [mrg EXCEPT !.i = 1]
            /\ UNCHANGED <<db, isLoading, error>>
       ELSE LET apiNote == mrg.apiNotes[mrg.i]
                r == addNote(db, apiNote, now)
            IN  IF InList(mrg.localNotes, apiNote.idea_flash_id)
                THEN /\ mrg' = [mrg EXCEPT !.i = @ + 1]
                     /\ UNCHANGED <<db, pc, isLoading, error>>
                ELSE IF r.ok
                THEN /\ db' = r.store
                     /\ mrg' = [mrg EXCEPT !.i = @ + 1]
                     /\ UNCHANGED <<pc, isLoading, error>>
                ELSE /\ mrg' = [mrg EXCEPT !.aborted = TRUE]
                     /\ OuterCatch
                     /\ UNCHANGED db
    /\ UNCHANGED <<notes, remote>>
    /\ PassFrame

\* 2. for (const localNote of localNotes): push it when it is anonymous
\*    (under a newly minted id) or absent from apiNotes, then delete it.
MergePromote ==
    /\ pc = "promote"
    /\ IF mrg.i > Len(mrg.localNotes)
       THEN /\ pc' = "refetch"
            /\ mrg' = [mrg EXCEPT !.i = 1]
            /\ UNCHANGED <<db, remote, isLoading, error>>
       ELSE LET localNote == mrg.localNotes[mrg.i]
                oldId == localNote.idea_flash_id
                pushId == IF isAnonymousNote(oldId)
                          THEN generateIdeaFlashId(mrg.userId, now)
                          ELSE oldId
            IN  IF ~isAnonymousNote(oldId) /\ InList(mrg.apiNotes, oldId)
                THEN /\ mrg' = [mrg EXCEPT !.i = @ + 1]
                     /\ UNCHANGED <<db, remote, pc, isLoading, error>>
                ELSE \E resolves \in BOOLEAN :
                        IF resolves
                        THEN /\ remote' = createPost(remote,
                                     Post(pushId, localNote.title, localNote.content))
                             /\ db' = deleteNote(db, oldId)
                             /\ mrg' = [mrg EXCEPT !.i = @ + 1,
                                            !.attempted = @ \cup {oldId},
                                            !.promoted = @ \cup {<<oldId, pushId>>}]
                             /\ UNCHANGED <<pc, isLoading, error>>
                        ELSE /\ UNCHANGED <<db, remote>>
                             /\ IF AfterPushRejected = "promote"
                                THEN /\ mrg' = [mrg EXCEPT !.i = @ + 1,
                                               !.rejected = TRUE,
                                               !.attempted = @ \cup {oldId},
                                               !.pushRejected = @ \cup {oldId}]
                                     /\ UNCHANGED <<pc, isLoading, error>>
                                ELSE /\ mrg' = [mrg EXCEPT !.rejected = TRUE,
                                               !.attempted = @ \cup {oldId},
                                               !.pushRejected = @ \cup {oldId},
                                               !.aborted = TRUE]
                                     /\ OuterCatch
    /\ UNCHANGED notes
    /\ PassFrame

\* A rejected re-fetch after which the store is cleared all the same.
AfterRefetchRejectedClears == "clear"

\* Where a rejected re-fetch leaves the pass: the inner catch skips the
\* clear and the rebuild, and the reload follows.
AfterRefetchRejected == "reload"

\* 3. const { data: updatedApiNotes } = await api.getPosts(); a rejection is
\*    caught by the inner catch and the pass goes on to the reload.
MergeRefetch ==
    \E resolves \in BOOLEAN :
        /\ pc = "refetch"
        /\ IF resolves
           THEN /\ mrg' = [mrg EXCEPT !.updatedApiNotes = getPosts(remote),
                                      !.refetched = TRUE]
                /\ pc' = "clear"
           ELSE /\ mrg' = [mrg EXCEPT !.rejected = TRUE]
                /\ pc' = AfterRefetchRejected
        /\ UNCHANGED <<db, notes, remote, isLoading, error>>
        /\ PassFrame

\* await database.clearAllNotes();
MergeClear ==
    /\ pc = "clear"
    /\ db' = clearAllNotes(db)
    /\ pc' = "rebuild"
    /\ mrg' = [mrg EXCEPT !.i = 1, !.rebuilt = TRUE]
    /\ UNCHANGED <<notes, remote, isLoading, error>>
    /\ PassFrame

\* for (const apiNote of updatedApiNotes) await database.addNote(...); a
\* rejected add is caught by the inner catch and ends the loop.
MergeRebuild ==
    /\ pc = "rebuild"
    /\ IF mrg.i > Len(mrg.updatedApiNotes)
       THEN /\ pc' = "reload"
            /\ UNCHANGED <<db, mrg>>
       ELSE LET r == addNote(db, mrg.updatedApiNotes[mrg.i], now)
            IN  IF r.ok
                THEN /\ db' = r.store
                     /\ mrg' = [mrg EXCEPT !.i = @ + 1]
                     /\ UNCHANGED pc
                ELSE /\ pc' = "reload"
                     /\ UNCHANGED <<db, mrg>>
    /\ UNCHANGED <<notes, remote, isLoading, error>>
    /\ PassFrame

\* await get().loadNotes(); set({ isLoading: false });
MergeReload ==
    /\ pc = "reload"
    /\ notes' = getNotes(db, NoLimit)
    /\ isLoading' = FALSE
    /\ error' = NULL
    /\ pc' = "done"
    /\ UNCHANGED <<db, remote, mrg>>
    /\ PassFrame

----------------------------------------------------------------------------
(* Spec: one popup session.  The store and the service hold what earlier   *)
(* sessions and other devices left there; the list has been loaded and the *)
(* auth store is about to initialize.                                      *)

LocalAnon == [id |-> <<0, Anonymous>>, idea_flash_id |-> <<0, Anonymous>>,
              title |-> Empty, content |-> <<"a">>,
              created_at |-> 0, updated_at |-> 0]

LocalOwned == [id |-> <<0, "u1">>, idea_flash_id |-> <<0, "u1">>,
               title |-> <<"B">>, content |-> Empty,
               created_at |-> 0, updated_at |-> 0]

DbInit == SUBSET {LocalAnon, LocalOwned}

RemoteOwned == Post(<<0, "u1">>, <<"B">>, Empty)

RemoteOnly == Post(<<-1, "u1">>, <<"a">>, <<"a">>)

RemoteBlank == Post(<<-2, "u1">>, Empty, <<" ">>)

RemoteInit ==
    {{}, {RemoteOwned}, {RemoteOwned, RemoteOnly}, {RemoteOnly, RemoteBlank}}

Init ==
    /\ db \in DbInit
    /\ remote \in RemoteInit
    /\ isApiEnabled \in BOOLEAN
    /\ now = 1
    /\ ret = NoRet
    /\ notes = getNotes(db, NoLimit)
    /\ isLoading = FALSE
    /\ error = NULL
    /\ searchTerm = Empty
    /\ user = NULL
    /\ isAuthenticated = FALSE
    /\ pc = "boot"
    /\ mrg = NoMrg
    /\ act = NoAct
    /\ calls = 0
    /\ conn = ConnOpen
    /\ gone = {}

Next ==
    \/ Tick
    \/ LoadNotes
    \/ SearchNotes
    \/ ClearFilters
    \/ AddNote
    \/ UpdateNote
    \/ DeleteNote
    \/ Sync
    \/ InitializeAuth
    \/ Login
    \/ Logout
    \/ MergeGetPosts
    \/ MergeAdopt
    \/ MergePromote
    \/ MergeRefetch
    \/ MergeClear
    \/ MergeRebuild
    \/ MergeReload

Spec == Init /\ [][Next]_vars

----------------------------------------------------------------------------
(* Properties *)

\* What the Record Store holds, read as posts.
AsPosts(store) == {Post(r.idea_flash_id, r.title, r.content) : r \in store}

NonBlank(note) == trim(note.title) # Empty \/ trim(note.content) # Empty

PassDone == pc = "done"

\* The in-memory list named every stored note when the pass read it.
ListWasFaithful ==
    {mrg.localNotes[k].idea_flash_id : k \in 1..Len(mrg.localNotes)}
        = {r.idea_flash_id : r \in mrg.dbStart}

\* C1 (merge convergence): when a pass has ended in which no remote call and
\* no push was rejected, the Record Store holds exactly the notes of the
\* remote set as it then stands (a set of notes, each non-blank as the data
\* model requires): the same portable ids, each with the remote title and
\* content, and nothing else.
C1_MergeConvergence ==
    (PassDone /\ ~mrg.rejected /\ \A p \in remote : NonBlank(p))
        => AsPosts(db) = remote


\* The records that stand for a note of the store as the pass found it:
\* those under its portable id and those under an id minted for it.
Copies(old) ==
    {r \in db : \/ r.idea_flash_id = old.idea_flash_id
                \/ <<old.idea_flash_id, r.idea_flash_id>> \in mrg.promoted}

\* C2 (portable-id uniqueness): in every reachable state no two records of
\* the Record Store carry the same portable id, and when a pass has ended,
\* a note that was stored when it began is stored at most once, under its
\* own id or under the id minted for it.
C2_PortableIdUnique ==
    /\ \A r1, r2 \in db : r1.idea_flash_id = r2.idea_flash_id => r1 = r2
    /\ PassDone => \A old \in mrg.dbStart : Cardinality(Copies(old)) <= 1

\* A pass has pushed a note and left at least two records in the store.
C2_Witness ==
    PassDone /\ mrg.promoted # {} /\ Cardinality(db) >= 2

AnonAtStart == {r \in mrg.dbStart : isAnonymousNote(r.idea_flash_id)}

\* C3 (anonymous promotion): when the pass started by a login has ended
\* with no failure, each anonymous note the store held before the login is
\* on the remote exactly once, under an id minted for it alone whose owner
\* is the user, with its title and content; the store holds it under that
\* id; and no anonymous id is left in the store or on the remote.
C3_AnonymousPromotion ==
    (PassDone /\ ~mrg.rejected /\ ~mrg.aborted) =>
        /\ \A a \in AnonAtStart :
              \E id \in {pr[2] : pr \in mrg.promoted} :
                  /\ <<a.idea_flash_id, id>> \in mrg.promoted
                  /\ id[2] = mrg.userId
                  /\ Post(id, a.title, a.content) \in remote
                  /\ Post(id, a.title, a.content) \in AsPosts(db)
                  /\ \A b \in AnonAtStart :
                        <<b.idea_flash_id, id>> \in mrg.promoted => b = a
        /\ \A r \in db : ~isAnonymousNote(r.idea_flash_id)
        /\ \A p \in remote : ~isAnonymousNote(p.idea_flash_id)

\* The notes of localNotes that step 2 has to push.
ToPush ==
    {mrg.localNotes[k].idea_flash_id : k \in
        {j \in 1..Len(mrg.localNotes) :
            \/ isAnonymousNote(mrg.localNotes[j].idea_flash_id)
            \/ ~InList(mrg.apiNotes, mrg.localNotes[j].idea_flash_id)}}

C5_LocalFirst ==
    [][(act # NoAct /\ act' = NoAct /\ ~ret'.synced) =>
            /\ db' = db
            /\ notes' = notes
            /\ error = NULL /\ error' = NULL
            /\ isLoading' = FALSE]_vars

\* The remote call of a coordinator action has been rejected.
C5_Witness ==
    /\ "synced" \in DOMAIN ret
    /\ ~ret.synced
    /\ act = NoAct
    /\ db # {}

\* C6 (local failure leaves the mirror untouched): when the Record Store
\* rejects the local write of addNote, updateNote or deleteNote, the
\* in-memory list and the store are unchanged, no remote call is issued,
\* error is set to a message and isLoading is false.
C6_LocalFailure ==
    [][((AddNote \/ UpdateNote \/ DeleteNote) /\ ~ret'.ok) =>
            /\ notes' = notes
            /\ db' = db
            /\ act' = NoAct
            /\ remote' = remote
            /\ error' # NULL
            /\ isLoading' = FALSE]_vars

\* A local write has been rejected while the list showed notes and the
\* user was signed in.
C6_Witness ==
    /\ DOMAIN ret = {"ok"}
    /\ ~ret.ok
    /\ error # NULL
    /\ notes # << >>
    /\ isAuthenticated /\ isApiEnabled

\* Title and content are both supplied and both blank after trimming.
BothBlank(x) ==
    /\ {"title", "content"} \subseteq DOMAIN x
    /\ trim(x.title) = Empty
    /\ trim(x.content) = Empty

\* C7 (no blank note is persisted): every record of the Record Store has a
\* title or a content that is non-blank after trimming, whoever wrote it;
\* and an addNote or updateNote whose title and content are both blank is
\* rejected and leaves the store unchanged.
C7_NoBlankNote ==
    /\ [](\A r \in db : NonBlank(r))
    /\ [][\A aborted \in BOOLEAN :
            /\ \A data \in AddIn :
                  (BothBlank(data) /\ AddNoteWith(data, aborted))
                      => (~ret'.ok /\ db' = db)
            /\ \A key \in ListedKeys, updates \in CoordUpdatesIn :
                  (BothBlank(updates) /\ UpdateNoteWith(key, updates, aborted))
                      => (~ret'.ok /\ db' = db)]_vars

\* The adoption step of a pass has been refused a blank remote note, and
\* the store holds notes.
C7_Witness ==
    /\ PassDone
    /\ mrg.aborted
    /\ RemoteBlank \in remote
    /\ db # {}


----------------------------------------------------------------------------
(* Properties of the Record Store, under SpecDB *)

Min(a, b) == IF a < b THEN a ELSE b

Descending(list) ==
    \A k \in 1..(Len(list) - 1) : list[k].created_at >= list[k + 1].created_at

\* C8 (list ordering and limit): getNotes() returns every stored note,
\* newest createdAt first, and getNotes(n) returns, for every n >= 0, the
\* first min(n, total) notes of that list.
C8_ListOrderingAndLimit ==
    "value" \in DOMAIN ret =>
        LET all == getNotes(db, NoLimit)
        IN  /\ {all[k] : k \in 1..Len(all)} = db
            /\ Len(all) = Cardinality(db)
            /\ Descending(all)
            /\ ret.limit = NoLimit => ret.value = all
            /\ ret.limit # NoLimit =>
                   ret.value = SubSeq(all, 1, Min(ret.limit[1], Cardinality(db)))

\* What a resolved updateNote(key, updates) leaves untouched: every field
\* of the record that the partial does not supply, updatedAt aside, and
\* every other record.
UpdateFrame(key, updates) ==
    /\ HasKey(db, key)
    /\ HasKey(db', key)
    /\ LET old == Lookup(db, key)
           new == Lookup(db', key)
       IN  /\ DOMAIN new = DOMAIN old
           /\ \A f \in DOMAIN old \ {"updated_at"} :
                  new[f] = IF f \in DOMAIN updates THEN updates[f] ELSE old[f]
           /\ db' \ {new} = db \ {old}

\* C9 as first stated (update preserves unspecified fields): a resolved
\* updateNote changes only the supplied fields and updatedAt, leaves every
\* other record alone, and makes updatedAt strictly greater than it was.
C9_UpdatePreservesStrict ==
    [][\A key \in KnownKeys(db), updates \in UpdatesIn :
          (DbUpdateNoteWith(key, updates) /\ ret'.ok) =>
              /\ UpdateFrame(key, updates)
              /\ Lookup(db', key).updated_at > Lookup(db, key).updated_at]_vars

\* C9 as amended: a resolved updateNote changes only the supplied fields
\* and updatedAt, leaves every other record alone, and sets updatedAt to
\* the clock reading of the update, which is not less than the prior
\* updatedAt and is strictly greater once the clock has moved past it.
C9_UpdatePreserves ==
    [][\A key \in KnownKeys(db), updates \in UpdatesIn :
          (DbUpdateNoteWith(key, updates) /\ ret'.ok) =>
              /\ UpdateFrame(key, updates)
              /\ Lookup(db', key).updated_at = now
              /\ Lookup(db', key).updated_at >= Lookup(db, key).updated_at
              /\ now > Lookup(db, key).updated_at =>
                     Lookup(db', key).updated_at > Lookup(db, key).updated_at]_vars

\* An update has resolved on one of two records: a record is newer than
\* its creation and kept the title it was created with.
C9_Witness ==
    /\ ret.ok
    /\ Cardinality(db) = 2
    /\ \E r \in db : /\ r.updated_at > r.created_at
                     /\ r.title = <<"a">>
                     /\ r.content = <<" ">>

\* C10 (update validates the merged result): for a stored record,
\* updateNote(id, partial) resolves exactly when the record obtained by
\* laying the partial over the stored one has a non-blank title or content.
C10_UpdateValidatesMerged ==
    [][\A key \in KnownKeys(db), updates \in UpdatesIn :
          (DbUpdateNoteWith(key, updates) /\ HasKey(db, key)) =>
              (ret'.ok <=> NonBlank(Overlay(Lookup(db, key), updates, now)))]_vars


----------------------------------------------------------------------------
(* Properties of the pass and of the auth store, under Spec *)

\* A step in which the auth store calls mergeWithApi.
CallsMerge == (InitializeAuth \/ Login) /\ isAuthenticated'

\* C11 (precondition no-op): when mergeWithApi is called while the API is
\* not configured, or the session is not authenticated, or no user is
\* known, no pass starts and the Record Store, the remote set, notes,
\* isLoading and error keep their values.
C11_PreconditionNoOp ==
    [][(CallsMerge /\ (~isApiEnabled \/ ~isAuthenticated' \/ user' = NULL)) =>
            /\ pc' = "idle"
            /\ mrg' = NoMrg
            /\ db' = db
            /\ remote' = remote
            /\ notes' = notes
            /\ isLoading' = isLoading
            /\ error' = error]_vars

\* mergeWithApi has been called for a session restored from a token, with
\* no user known, over a store that holds notes.
C11_Witness ==
    /\ isApiEnabled
    /\ isAuthenticated
    /\ user = NULL
    /\ pc = "idle"
    /\ calls = 0
    /\ db # {}


\* C12 (remote errors are never surfaced by the pass): when a pass has
\* ended in which a remote call was rejected, be it the first getPosts, a
\* createPost or the re-fetch, error is null.
C12_RemoteErrorsNotSurfaced ==
    (PassDone /\ mrg.rejected) => error = NULL

\* The re-fetch resolved and the rebuild loop added every note it returned.
RebuildSucceeded ==
    /\ mrg.refetched
    /\ mrg.rebuilt
    /\ ~mrg.aborted
    /\ mrg.i > Len(mrg.updatedApiNotes)

\* C13 (data loss is confined to failed pushes): when a pass has ended whose
\* re-fetch and rebuild succeeded, a note stored when the pass began is
\* absent from the store, under its own id and under an id minted for it,
\* exactly when its push was rejected.
C13_LossOnlyOnFailedPush ==
    (PassDone /\ RebuildSucceeded) =>
        \A old \in mrg.dbStart :
            (Copies(old) = {}) <=> (old.idea_flash_id \in mrg.pushRejected)

\* C14 (a rejected re-fetch does not corrupt local state): when a pass has
\* ended whose re-fetch was rejected, every note stored when the pass began
\* is still stored, those whose push resolved included.
C14_RejectedRefetchKeepsNotes ==
    (PassDone /\ ~mrg.aborted /\ ~mrg.refetched) =>
        \A old \in mrg.dbStart : HasKey(db, old.idea_flash_id)


----------------------------------------------------------------------------
(* Properties of withTransaction, under SpecTx *)

\* C15 (operation result matches transaction outcome): a write whose
\* promise resolved had its transaction committed, and a write whose
\* transaction aborted is reported as rejected and leaves the store as it
\* was.
C15_ResultMatchesOutcome ==
    [][TxCompletes =>
          /\ ret'.state = "resolved" => ret'.committed
          /\ ~ret'.committed => (ret'.state = "rejected" /\ db' = db)]_vars


----------------------------------------------------------------------------
(* Properties of initDB, under SpecOpen *)

\* C16 (initialization is idempotent under concurrency): however many
\* operations call initDB before the first open has completed, at most one
\* open succeeds and every operation is given the same connection.
C16_InitOnce ==
    /\ conn.opened <= 1
    /\ Cardinality(conn.used) <= 1


----------------------------------------------------------------------------
(* Properties of the coordinator and the auth store, under Spec *)

SameNote(r1, r2) == r1.idea_flash_id = r2.idea_flash_id

\* C17 (createdAt is immutable and bounded by updatedAt): every stored
\* record has updatedAt >= createdAt; no step changes the createdAt of the
\* record under a portable id; and when a pass has ended, a record under a
\* portable id that was stored when the pass began has the createdAt it
\* had then.
C17_CreatedAtImmutable ==
    /\ [](\A r \in db : r.updated_at >= r.created_at)
    /\ [][\A r1 \in db, r2 \in db' :
              SameNote(r1, r2) => r2.created_at = r1.created_at]_vars
    /\ [](PassDone =>
              \A old \in mrg.dbStart, r \in db :
                  SameNote(old, r) => r.created_at = old.created_at)

C19_PassAtSessionStart ==
    /\ [][(isApiEnabled /\ ~isAuthenticated /\ isAuthenticated')
              => pc' = "getPosts"]_vars
    /\ [](pc \notin {"boot", "idle"} => isAuthenticated)

\* C20 (the in-memory list is a faithful cache of the store): when the list
\* equals getNotes() of the Record Store, it still does after the local
\* step of addNote, updateNote or deleteNote, resolved or rejected, and it
\* names no portable id twice.
C20_FaithfulCache ==
    [][(notes = getNotes(db, NoLimit) /\ (AddNote \/ UpdateNote \/ DeleteNote)) =>
           /\ notes' = getNotes(db', NoLimit)
           /\ \A j, k \in 1..Len(notes') :
                  SameNote(notes'[j], notes'[k]) => j = k]_vars


----------------------------------------------------------------------------
(* Properties of the steps of a pass, under Spec *)

\* An iteration of the adoption loop over a remote note.
AdoptsOne == MergeAdopt /\ mrg.i <= Len(mrg.apiNotes)

\* C21 (adoption is decided against the Record Store): in an iteration of
\* the adoption loop, a remote note whose portable id is stored is left
\* alone and the loop goes on, and a non-blank remote note whose portable
\* id is not stored is added, whatever the in-memory list holds.
C21_AdoptionAgainstStore ==
    [][AdoptsOne =>
          LET apiNote == mrg.apiNotes[mrg.i]
          IN  /\ HasKey(db, apiNote.idea_flash_id) => (db' = db /\ pc' = "adopt")
              /\ (~HasKey(db, apiNote.idea_flash_id) /\ NonBlank(apiNote))
                     => HasKey(db', apiNote.idea_flash_id)]_vars

\* The promotion loop of the pass has run to its end.
PromotionOver ==
    \/ pc \in {"refetch", "clear", "rebuild", "reload"}
    \/ PassDone /\ ~mrg.aborted

\* C22 (promotion covers every stored local note): when the promotion loop
\* has ended, every note that was stored when the pass began and whose
\* portable id is anonymous or absent from the fetched remote set has had
\* a createPost attempted for it; a note whose createPost resolved is no
\* longer stored under its old id before the rebuild, and a note that was
\* on the remote was not pushed.
C22_PromotionCoversStore ==
    PromotionOver =>
        /\ \A old \in mrg.dbStart :
              (\/ isAnonymousNote(old.idea_flash_id)
               \/ ~InList(mrg.apiNotes, old.idea_flash_id))
                  => old.idea_flash_id \in mrg.attempted
        /\ \A id \in mrg.attempted :
              isAnonymousNote(id) \/ ~InList(mrg.apiNotes, id)
        /\ pc = "refetch" =>
              \A pr \in mrg.promoted : pr[1] # pr[2] => ~HasKey(db, pr[1])

\* C23 (step ordering inside one pass): no push has been attempted while
\* the adoption loop runs; the re-fetch is entered only from the end of the
\* promotion loop; the store is cleared only after the re-fetch resolved;
\* rebuild adds run only after the clear; the reload is entered only from
\* the rebuild or from a rejected re-fetch; and no step other than the
\* clear of a pass removes more than one record from the store.
C23_StepOrdering ==
    /\ [](pc = "adopt" => mrg.attempted = {})
    /\ [](pc \in {"clear", "rebuild"} => mrg.refetched)
    /\ [](pc = "rebuild" => mrg.rebuilt)
    /\ [][(pc' = "refetch" /\ pc # "refetch")
              => (pc = "promote" /\ mrg.i > Len(mrg.localNotes))]_vars
    /\ [][MergeClear => mrg.refetched]_vars
    /\ [][(pc' = "reload" /\ pc # "reload")
              => (pc = "rebuild" \/ (pc = "refetch" /\ ~mrg'.refetched))]_vars
    /\ [][Cardinality(db \ db') > 1 => MergeClear]_vars

\* A pass has adopted, pushed, re-fetched, cleared a store of two records
\* and rebuilt it.
C23_Witness ==
    /\ PassDone
    /\ mrg.rebuilt
    /\ mrg.attempted # {}
    /\ Cardinality(mrg.dbStart) = 2
    /\ Len(mrg.updatedApiNotes) >= 2
    /\ Cardinality(db) >= 2

\* C25 (minted portable ids are distinct): a coordinator addNote of a
\* non-blank note, whose portable id is minted by generateIdeaFlashId, is
\* never rejected by the store, so no create fails through a collision of
\* ids, even when the clock has not advanced since the last minting.
C25_MintedIdsDistinct ==
    [][\A data \in AddIn :
          (AddNoteWith(data, FALSE) /\ ~BothBlank(data))
              => ret'.ok]_vars

\* C26 (the remote never receives an anonymous portable id): no createPost
\* is issued with an anonymous portable id and no post of the remote has
\* one.
C26_NoAnonymousOnRemote ==
    /\ act.op = "createPost" => ~isAnonymousNote(act.id)
    /\ \A p \in remote : ~isAnonymousNote(p.idea_flash_id)

\* C27 (no cross-user upload): every portable id for which a pass of user
\* B has attempted a createPost is anonymous (promoted under an id minted
\* for B) or carries B's own user id; a note that another user created on
\* this device is never pushed in B's session.
C27_NoCrossUserUpload ==
    pc \notin {"boot", "idle"} =>
        \A id \in mrg.attempted : id[2] \in {Anonymous, mrg.userId}

\* C28 (a local delete stays deleted): once a coordinator deleteNote has
\* removed a note from the Record Store, no step of a later pass stores a
\* note under that portable id again, whether or not a remote delete was
\* issued or succeeded.  (The push step of a pass only removes records.)
C28_DeleteStaysDeleted ==
    [][(MergeAdopt \/ MergeRebuild) =>
          \A id \in gone : HasKey(db', id) => HasKey(db, id)]_vars

----------------------------------------------------------------------------
(* SpecOverlap: calls made while a pass is running.  Every pass step is    *)
(* one awaited call, so between two steps of a pass the event loop may run *)
(* a step of another pass or a coordinator action.  pc and mrg are the     *)
(* position and locals of the pass whose step runs next; a second pass     *)
(* waits in act, and Resume hands the turn over.                           *)

\* A pass is between its start and its end.
InProgress == pc \notin {"boot", "idle", "done"}

\* An invocation that is turned away while a pass is in progress.
MergeRefusesWhileRunning(running) == ~running

\* mergeWithApi keeps no record of a pass in progress: after the
\* precondition its first statement is set({ isLoading: true, error: null }),
\* whether or not another pass runs.
MergeAdmits(running) == TRUE

\* login resolves again while the pass of the first login is still running
\* (login sets its own isLoading to false before it awaits mergeWithApi, so
\* the dialog can be submitted again): mergeWithApi is invoked anew.
LoginAgain ==
    /\ InProgress
    /\ act = NoAct
    /\ calls < MaxCalls
    /\ calls' = calls + 1
    /\ IF MergeAdmits(InProgress)
       THEN /\ act' = [op |-> "merge", pc |-> pc, mrg |-> mrg]
            /\ MergeStart(TRUE, user)
       ELSE UNCHANGED <<act, pc, mrg, isLoading, error>>
    /\ UNCHANGED <<db, now, conn, gone, ret, notes, searchTerm, user, isAuthenticated,
                   isApiEnabled, remote>>

\* The awaited call of the waiting pass settles first: the event loop runs
\* its continuation next.
Resume ==
    /\ act.op = "merge"
    /\ act.pc # "done"
    /\ pc' = act.pc
    /\ mrg' = act.mrg
    /\ act' = [op |-> "merge", pc |-> pc, mrg |-> mrg]
    /\ UNCHANGED <<db, now, conn, gone, ret, notes, isLoading, error, searchTerm, user,
                   isAuthenticated, isApiEnabled, remote, calls>>

\* addNote(noteData) called while a pass is running, up to the local write;
\* ret remembers the portable id that was minted.
AddNoteInPass ==
    \E data \in AddIn :
        LET ideaFlashId == generateIdeaFlashId(user, now)
            params == [title |-> data.title, content |-> data.content,
                       idea_flash_id |-> ideaFlashId]
            r == addNote(db, params, now)
        IN  /\ InProgress
            /\ act = NoAct
            /\ calls < MaxCalls
            /\ calls' = calls + 1
            /\ Cardinality(db) < MaxNotes
            /\ db' = r.store
            /\ ret' = [ok |-> r.ok, added |-> ideaFlashId]
            /\ isLoading' = FALSE
            /\ IF r.ok
               THEN /\ notes' = <<r.note>> \o notes
                    /\ error' = NULL
                    /\ act' = IF isApiEnabled /\ isAuthenticated
                              THEN [op |-> "createPost", id |-> ideaFlashId,
                                    title |-> data.title, content |-> data.content]
                              ELSE NoAct
               ELSE /\ notes' = NotesAfterLocalFailure(notes)
                    /\ error' = "Failed"
                    /\ act' = NoAct
            /\ UNCHANGED <<now, conn, gone, searchTerm, remote, pc, mrg>>
            /\ AuthUnchanged

\* The createPost of that addNote resolves or rejects.
SyncInPass ==
    \E resolves \in BOOLEAN :
        /\ act.op = "createPost"
        /\ remote' = IF resolves
                     THEN createPost(remote, Post(act.id, act.title, act.content))
                     ELSE remote
        /\ error' = IF resolves THEN error ELSE ErrorAfterSyncFailure(error)
        /\ act' = NoAct
        /\ UNCHANGED <<db, now, conn, gone, ret, notes, isLoading, searchTerm, pc, mrg,
                       calls>>
        /\ AuthUnchanged

\* The API is configured; loadNotes and the login of u1 are the two calls
\* made so far, and the login has called mergeWithApi, which is at its
\* first await.
InitOverlap ==
    /\ db \in {{LocalAnon}, {LocalAnon, LocalOwned}}
    /\ remote \in {{}, {RemoteOwned}}
    /\ isApiEnabled = TRUE
    /\ now = 1
    /\ ret = NoRet
    /\ notes = getNotes(db, NoLimit)
    /\ isLoading = TRUE
    /\ error = NULL
    /\ searchTerm = Empty
    /\ user = "u1"
    /\ isAuthenticated = TRUE
    /\ pc = "getPosts"
    /\ mrg = NewMrg("u1")
    /\ act = NoAct
    /\ calls = 2
    /\ conn = ConnOpen
    /\ gone = {}

NextOverlap ==
    \/ Tick
    \/ MergeGetPosts
    \/ MergeAdopt
    \/ MergePromote
    \/ MergeRefetch
    \/ MergeClear
    \/ MergeRebuild
    \/ MergeReload
    \/ LoginAgain
    \/ Resume
    \/ AddNoteInPass
    \/ SyncInPass

SpecOverlap == InitOverlap /\ [][NextOverlap]_vars

\* C24 (no in-progress guard): a mergeWithApi invoked while a pass is
\* running starts a second pass at its first getPosts and leaves the running
\* pass where it was, to go on to its end; neither the store nor the remote
\* is touched by the invocation.
C24_NoInProgressGuard ==
    [][LoginAgain =>
          /\ pc' = "getPosts"
          /\ isLoading'
          /\ act' = [op |-> "merge", pc |-> pc, mrg |-> mrg]
          /\ db' = db /\ remote' = remote]_vars

\* Two passes have both run to their end and both have pushed the same
\* anonymous note: the remote holds it under two minted portable ids.
C24_Witness ==
    /\ pc = "done"
    /\ act.op = "merge"
    /\ act.pc = "done"
    /\ \E a \in mrg.promoted, b \in act.mrg.promoted :
          /\ a[1] = b[1]
          /\ isAnonymousNote(a[1])
          /\ a[2] # b[2]
          /\ RemoteHas(remote, a[2])
          /\ RemoteHas(remote, b[2])

\* C29 (an add during a pass survives it): when the pass and the remote
\* call of the add have both finished, a note that a coordinator addNote
\* stored while the pass was running is in the Record Store and in the
\* list.
C29_AddDuringPassSurvives ==
    (pc = "done" /\ act = NoAct /\ "added" \in DOMAIN ret /\ ret.ok) =>
        /\ HasKey(db, ret.added)
        /\ InList(notes, ret.added)

\* C30 (isLoading tracks in-flight work): isLoading is true whenever a pass
\* is between its start and its end, whatever else has started or finished
\* in the meantime.
C30_LoadingTracksInFlight ==
    (InProgress \/ (act.op = "merge" /\ act.pc # "done")) => isLoading

====
